---- MODULE Spec2Model ----
(***************************************************************************)
(* A model of search/api.py of edx-search (eol-uchile fork): the two query *)
(* entry points perform_search and course_discovery_search, together with  *)
(* the collaborators they call (filter generator, search engine, result    *)
(* processor, course store, optional course_classification plugin).        *)
(*                                                                         *)
(* Python values are modelled as follows.                                  *)
(*   - None is the record None; a str scalar s is [str |-> s];             *)
(*   - a str that the code inspects character by character (year,          *)
(*     classification) is a sequence of one-character strings; "sup2"      *)
(*     stands for U+00B2 SUPERSCRIPT TWO, a character for which            *)
(*     str.isnumeric() is True and int() raises ValueError;                *)
(*   - a dict is a function whose domain is its set of keys;               *)
(*   - a list is a sequence;                                               *)
(*   - datetime(y, m, d) is [year |-> y, month |-> m, day |-> d] and       *)
(*     datetime.utcnow() is [instant |-> t] for the clock value t;         *)
(*   - DateRange(lower, upper) is [lower |-> .., upper |-> ..].            *)
(* The pass-through arguments search_term, size and from_ are handed to    *)
(* the engine unchanged and are left out of the model.                     *)
(***************************************************************************)
EXTENDS Integers, Sequences, FiniteSets, TLC

\* ---------------------------------------------------------------- bounds
\* Number of courses in the course store (CourseOverview rows).
NumCourses == 2
\* The clock (datetime.utcnow()) takes the values 0..MaxClock.
MaxClock == 1
\* The engine returns at most MaxHits hits to perform_search.
MaxHits == 3

Courses == 1..NumCourses

\* ------------------------------------------------------- python values
None == [none |-> TRUE]

Str(s) == [str |-> s]

EmptyDict == [k \in {} |-> None]

\* d.update(e)
DictUpdate(d, e) ==
    [k \in (DOMAIN d) \cup (DOMAIN e) |-> IF k \in DOMAIN e THEN e[k] ELSE d[k]]

\* d[key] = value
DictSet(d, key, value) ==
    [k \in (DOMAIN d) \cup {key} |-> IF k = key THEN value ELSE d[k]]

\* Python truthiness of an optional dict argument: None and {} are falsy.
Truthy(d) == d # None /\ DOMAIN d # {}

DateRange(lower, upper) == [lower |-> lower, upper |-> upper]

\* The characters of the modelled str values.
DecimalChars == {"0", "1", "2", "3", "4", "5", "6", "7", "8", "9"}

\* Characters with the Unicode property Numeric_Type; sup2 is numeric but
\* not decimal.
NumericChars == DecimalChars \cup {"sup2"}

DigitValue(c) ==
    CASE c = "0" -> 0 [] c = "1" -> 1 [] c = "2" -> 2 [] c = "3" -> 3
      [] c = "4" -> 4 [] c = "5" -> 5 [] c = "6" -> 6 [] c = "7" -> 7
      [] c = "8" -> 8 [] c = "9" -> 9

\* str.isnumeric(): non-empty and every character numeric.
IsNumeric(s) == Len(s) > 0 /\ \A i \in 1..Len(s) : s[i] \in NumericChars

\* int(s) succeeds on the modelled alphabet exactly when s is a non-empty
\* run of decimal digits; otherwise it raises ValueError.
IntParses(s) == Len(s) > 0 /\ \A i \in 1..Len(s) : s[i] \in DecimalChars

RECURSIVE IntValue(_)
IntValue(s) ==
    IF s = <<>> THEN 0
    ELSE 10 * IntValue(SubSeq(s, 1, Len(s) - 1)) + DigitValue(s[Len(s)])

\* datetime(year, 1, 1) raises ValueError unless MINYEAR <= year <= MAXYEAR.
DatetimeValid(y) == y >= 1 /\ y <= 9999

Datetime(y, m, d) == [year |-> y, month |-> m, day |-> d]

Instant(t) == [instant |-> t]

\* str(course key)
IdStr(c) == <<"course-v1", c>>

\* Sequence of the elements of a set of courses, in key order.
RECURSIVE CourseList(_)
CourseList(S) ==
    IF S = {} THEN <<>>
    ELSE LET m == CHOOSE x \in S : \A y \in S : x <= y
         IN <<m>> \o CourseList(S \ {m})

\* ------------------------------------------------------------- inputs
\* Values of order_by: the two recognised flags, the default and another.
OrderArgs == {"", "newer", "older", "popular"}

\* Values of year: the default, ordinary years, the ends of datetime's
\* range, a non-numeric string and a numeric non-decimal one.
YearArgs ==
    { <<>>, <<"2", "0", "2", "4">>, <<"0">>, <<"9", "9", "9", "8">>,
      <<"9", "9", "9", "9">>, <<"2", "k">>, <<"sup2">> }

\* Values of state.
StateArgs == {"", "active", "finished", "archived"}

\* Values of classification: the default, an id and a non-integer.
ClassificationArgs == { <<>>, <<"1">>, <<"x">> }

\* Caller-supplied field_dictionary values.
CallerRange == DateRange(Datetime(2000, 6, 1), None)

FieldDictArgs ==
    { None, EmptyDict, [org |-> Str("uchile")],
      [start |-> CallerRange, end |-> CallerRange] }

\* The requests made to course_discovery_search: every flag over its whole
\* set with the other arguments over two values each.
DiscoveryRequests ==
    [ order_by : OrderArgs, year : {<<>>, <<"2", "0", "2", "4">>},
      state : {"", "active"}, classification : {<<>>, <<"1">>},
      field_dictionary : {None, [start |-> CallerRange, end |-> CallerRange]} ]
    \cup
    [ order_by : {"newer"}, year : YearArgs, state : StateArgs,
      classification : {<<>>}, field_dictionary : FieldDictArgs ]
    \cup
    [ order_by : {"", "older"}, year : {<<>>, <<"2", "0", "2", "4">>},
      state : {"", "finished"}, classification : ClassificationArgs,
      field_dictionary : {None, [org |-> Str("uchile")]} ]

\* --------------------------------------------------------------- state
VARIABLES
    engine_configured,        \* settings.SEARCH_ENGINE names an engine
    classification_installed, \* the course_classification package imports
    generator_shared,         \* the filter generator hands out one dict object
    generator_exclude,        \* the exclude dict the filter generator holds
    catalog_visibility,       \* CourseOverview.catalog_visibility per course
    utcnow,                   \* the clock read by datetime.utcnow()
    call                      \* the request being served, or NoCall

vars == << engine_configured, classification_installed, generator_shared,
           generator_exclude, catalog_visibility, utcnow, call >>

config == << engine_configured, classification_installed, generator_shared >>

NoCall == [fn |-> "idle"]

Visibilities == {"both", "about"}

\* The exclude dictionary a filter generator answers with before any call.
GeneratorExcludeBase == [org |-> <<Str("otherorg")>>]

Init ==
    /\ engine_configured \in BOOLEAN
    /\ classification_installed \in BOOLEAN
    /\ generator_shared \in BOOLEAN
    /\ generator_exclude = GeneratorExcludeBase
    /\ catalog_visibility \in [Courses -> Visibilities]
    /\ utcnow = 0
    /\ call = NoCall

\* ------------------------------------------------------- collaborators
\* SearchFilterGenerator.generate_field_filters(user, course_id): the field
\* dictionary restricts to the course when one is given.
GeneratorFields(course_id) ==
    IF course_id = None THEN EmptyDict ELSE [course |-> course_id]

\* The field dictionaries generate_field_filters() may answer with when
\* called without arguments: the default generator's, and a site generator's.
SearchFieldAnswers == { EmptyDict, [org |-> Str("eol"), course |-> Str("c0")] }

\* SearchEngine.get_search_engine(index): the engine, or None.
GetSearchEngine == IF engine_configured THEN Str("engine") ELSE None

\* The hits searcher.search_string returns: n courseware documents.
ContentHits(n) == [i \in 1..n |-> [id |-> i, data |-> [doc |-> i, processed |-> FALSE]]]

\* SearchResultProcessor.process_result(data, term, user): None when the
\* user may not see the document (i \in denied), else the data, processed.
ProcessResult(data, deny) ==
    IF deny THEN None ELSE [data EXCEPT !.processed = TRUE]

\* The hits searcher.search returns for a discovery query: the course_info
\* documents of the courses whose id is not excluded.
CourseHits(exclude_dictionary) ==
    LET excluded == IF "_id" \in DOMAIN exclude_dictionary
                    THEN { exclude_dictionary["_id"][i] :
                             i \in 1..Len(exclude_dictionary["_id"]) }
                    ELSE {}
        shown == { c \in Courses : IdStr(c) \notin excluded }
        list == CourseList(shown)
    IN [i \in 1..Len(list) |->
           [id |-> IdStr(list[i]), data |-> [course |-> list[i], enriched |-> FALSE]]]

\* course_classification.helpers.get_courses_by_classification(k): the
\* courses classified under k.
CoursesByClassification(k) == { c \in Courses : c <= k }

\* course_classification.helpers.set_data_courses(results): the hits with
\* their classification data added.
SetDataCourses(results) ==
    [i \in 1..Len(results) |-> [results[i] EXCEPT !.data.enriched = TRUE]]

\* CourseOverview.objects.exclude(catalog_visibility="both").values("id"),
\* each id through str().
NonBothIds ==
    LET rows == CourseList({ c \in Courses : catalog_visibility[c] # "both" })
    IN [i \in 1..Len(rows) |-> IdStr(rows[i])]

\* CourseOverview.objects.exclude(id__in=courses).values("id"), each id
\* through str().
IdsNotIn(courses) ==
    LET rows == CourseList(Courses \ courses)
    IN [i \in 1..Len(rows) |-> IdStr(rows[i])]

\* ------------------------------------------------------ perform_search
\* As SearcherMissing, but the check is lost.
SearcherMissing_Never(searcher) == FALSE

\* if not searcher: raise NoSearchEngineError
SearcherMissing(searcher) == searcher = None

\* for result in results["results"]: result["data"] = process_result(...)
ProcessAll(hits, denied) ==
    [i \in 1..Len(hits) |->
        [hits[i] EXCEPT !.data = ProcessResult(hits[i].data, i \in denied)]]

IsDenied(r) == r.data = None

IsAccessible(r) == r.data # None

\* As KeepAccessible, but with the test inverted.
KeepAccessible_Inverted(results) == SelectSeq(results, IsDenied)

\* [r for r in results["results"] if r["data"] is not None]
KeepAccessible(results) == SelectSeq(results, IsAccessible)

\* As AccessDeniedCount, but counting after the list has been filtered
\* (the two statements exchanged).
AccessDeniedCount_AfterFilter(results) ==
    Len(SelectSeq(KeepAccessible(results), IsDenied))

\* len([r for r in results["results"] if r["data"] is None])
AccessDeniedCount(results) == Len(SelectSeq(results, IsDenied))

\* perform_search(search_term, user, size, from_, course_id): the engine
\* answers with n hits and the result processor denies those in denied.
perform_search(course_id, n, denied) ==
    /\ call = NoCall
    /\ LET field_dictionary == GeneratorFields(course_id)
           exclude_dictionary == generator_exclude
           searcher == GetSearchEngine
       IN IF SearcherMissing(searcher)
          THEN call' = [ fn |-> "perform_search", course_id |-> course_id,
                         raised |-> "NoSearchEngineError", searched |-> FALSE ]
          ELSE LET hits == ContentHits(n)
                   processed == ProcessAll(hits, denied)
                   results == [ total |-> n,
                                access_denied_count |-> AccessDeniedCount(processed),
                                results |-> KeepAccessible(processed) ]
               IN call' = [ fn |-> "perform_search", course_id |-> course_id,
                            raised |-> "none", searched |-> TRUE,
                            engine |-> [ doc_type |-> "courseware_content",
                                         field_dictionary |-> field_dictionary,
                                         exclude_dictionary |-> exclude_dictionary ],
                            engine_hits |-> hits, denied |-> denied,
                            returned |-> results ]
    /\ UNCHANGED << config, generator_exclude, catalog_visibility, utcnow >>

\* --------------------------------------------- course_discovery_search
\* use_field_dictionary = {}; the allow-listed generator fields, then the
\* caller's field_dictionary when it is truthy.
InitialFieldDictionary(search_fields, field_dictionary) ==
    LET use_search_fields == {"org"}
        allowed == [f \in (DOMAIN search_fields) \cap use_search_fields |->
                       search_fields[f]]
    IN IF Truthy(field_dictionary)
       THEN DictUpdate(allowed, field_dictionary)
       ELSE allowed

\* The caller's field_dictionary object once the call is over: the code
\* reads it (update into a new dict) and never writes to it.
CallerDictAfter(field_dictionary, use_field_dictionary) == field_dictionary

\* As SortFor, but with the two sort expressions exchanged.
SortFor_Swapped(order_by) ==
    LET s0 == ""
        s1 == IF order_by = "newer" THEN "start" ELSE s0
        s2 == IF order_by = "older" THEN "start:desc" ELSE s1
    IN s2

\* sort = ""; if order_by == "newer": ...; if order_by == "older": ...
SortFor(order_by) ==
    LET s0 == ""
        s1 == IF order_by = "newer" THEN "start:desc" ELSE s0
        s2 == IF order_by = "older" THEN "start" ELSE s1
    IN s2

\* if year != "" and year.isnumeric()
YearGiven(year) == year # <<>> /\ IsNumeric(year)

\* int(year), datetime(year, 1, 1) or datetime(year+1, 1, 1) raises.
YearRaises(year) ==
    /\ YearGiven(year)
    /\ \/ ~IntParses(year)
       \/ ~DatetimeValid(IntValue(year))
       \/ ~DatetimeValid(IntValue(year) + 1)

\* use_field_dictionary["start"] = DateRange(datetime(year, 1, 1),
\*                                           datetime(year+1, 1, 1))
YearFilter(use_field_dictionary, year) ==
    IF YearGiven(year)
    THEN DictSet(use_field_dictionary, "start",
                 DateRange(Datetime(IntValue(year), 1, 1),
                           Datetime(IntValue(year) + 1, 1, 1)))
    ELSE use_field_dictionary

\* As StateFilter, but with the two ranges exchanged.
StateFilter_Swapped(use_field_dictionary, state, now) ==
    IF state \in {"active", "finished"}
    THEN IF state = "active"
         THEN DictSet(use_field_dictionary, "end", DateRange(None, now))
         ELSE DictSet(use_field_dictionary, "end", DateRange(now, None))
    ELSE use_field_dictionary

\* if state in ['active', 'finished']: use_field_dictionary["end"] = ...
StateFilter(use_field_dictionary, state, now) ==
    IF state \in {"active", "finished"}
    THEN IF state = "active"
         THEN DictSet(use_field_dictionary, "end", DateRange(now, None))
         ELSE DictSet(use_field_dictionary, "end", DateRange(None, now))
    ELSE use_field_dictionary

\* As ExcludeVisibility, but extending an "_id" list already in the dict.
ExcludeVisibility_Extends(exclude_dictionary, ids) ==
    IF "_id" \in DOMAIN exclude_dictionary
    THEN DictSet(exclude_dictionary, "_id", exclude_dictionary["_id"] \o ids)
    ELSE DictSet(exclude_dictionary, "_id", ids)

\* exclude_dictionary["_id"] = ids
ExcludeVisibility(exclude_dictionary, ids) ==
    DictSet(exclude_dictionary, "_id", ids)

\* What the classification lookup can do for this argument: skipped when
\* classification == ""; ImportError when the package is absent;
\* ValueError from int(); otherwise the helper answers, the helper raises,
\* or the follow-up CourseOverview query raises.
LookupOutcomes(classification) ==
    IF classification = <<>> THEN {"skipped"}
    ELSE IF ~classification_installed THEN {"ImportError"}
    ELSE IF ~IntParses(classification) THEN {"ValueError"}
    ELSE {"ok", "lookup_error", "query_error"}

\* As ClassificationFilter, but assigning the classification's list
\* (= for +=).
ClassificationFilter_Assigns(exclude_dictionary, classification, outcome) ==
    IF outcome = "ok"
    THEN LET courses == CoursesByClassification(IntValue(classification))
             ids == IdsNotIn(courses)
         IN DictSet(exclude_dictionary, "_id", ids)
    ELSE exclude_dictionary

\* As ClassificationFilter, but the += also runs, on the ids variable of
\* the visibility query, when the follow-up query raised.
ClassificationFilter_ExtendsOnError(exclude_dictionary, classification, outcome) ==
    IF outcome = "ok"
    THEN LET courses == CoursesByClassification(IntValue(classification))
             ids == IdsNotIn(courses)
         IN DictSet(exclude_dictionary, "_id", exclude_dictionary["_id"] \o ids)
    ELSE IF outcome = "query_error"
    THEN DictSet(exclude_dictionary, "_id",
                 exclude_dictionary["_id"] \o exclude_dictionary["_id"])
    ELSE exclude_dictionary

\* try: ...; exclude_dictionary["_id"] += ids; except Exception: log, pass
ClassificationFilter(exclude_dictionary, classification, outcome) ==
    IF outcome = "ok"
    THEN LET courses == CoursesByClassification(IntValue(classification))
             ids == IdsNotIn(courses)
         IN DictSet(exclude_dictionary, "_id", exclude_dictionary["_id"] \o ids)
    ELSE exclude_dictionary

\* What set_data_courses can do: ImportError when the package is absent,
\* otherwise it answers or raises.
EnrichOutcomes ==
    IF ~classification_installed THEN {"ImportError"} ELSE {"ok", "error"}

\* As Enrich, but the results list is lost when the collaborator fails.
Enrich_DropsOnError(results, outcome) ==
    IF outcome = "ok"
    THEN [results EXCEPT !.results = SetDataCourses(results.results)]
    ELSE [results EXCEPT !.results = <<>>]

\* try: results['results'] = set_data_courses(results['results'])
\* except Exception: log, pass
Enrich(results, outcome) ==
    IF outcome = "ok"
    THEN [results EXCEPT !.results = SetDataCourses(results.results)]
    ELSE results

\* Whether the dict the generator handed over held an "_id" list other
\* than the one the call passes to the engine (a record of the call's
\* history, not read by the code).
HoldsOtherIds(received, passed) ==
    "_id" \in DOMAIN received /\ received["_id"] # passed["_id"]

\* course_discovery_search(search_term, size, from_, field_dictionary,
\* order_by, year, state, classification): req holds the arguments,
\* search_fields is the generator's answer, lookup and enrich what the
\* optional collaborators do.
course_discovery_search(req, search_fields, lookup, enrich) ==
    /\ call = NoCall
    /\ lookup \in LookupOutcomes(req.classification)
    /\ enrich \in EnrichOutcomes
    /\ LET exclude0 == generator_exclude
           ufd0 == InitialFieldDictionary(search_fields, req.field_dictionary)
           searcher == GetSearchEngine
           base == [ fn |-> "course_discovery_search", req |-> req,
                     search_fields |-> search_fields,
                     lookup |-> lookup, enrich |-> enrich ]
       IN IF SearcherMissing(searcher)
          THEN /\ call' = base @@
                     [ raised |-> "NoSearchEngineError", searched |-> FALSE,
                       caller_dict |-> CallerDictAfter(req.field_dictionary, ufd0) ]
               /\ UNCHANGED generator_exclude
          ELSE IF YearRaises(req.year)
          THEN /\ call' = base @@
                     [ raised |-> "ValueError", searched |-> FALSE,
                       caller_dict |-> CallerDictAfter(req.field_dictionary, ufd0) ]
               /\ UNCHANGED generator_exclude
          ELSE LET sort == SortFor(req.order_by)
                   ufd1 == YearFilter(ufd0, req.year)
                   ufd2 == StateFilter(ufd1, req.state, Instant(utcnow))
                   exclude1 == ExcludeVisibility(exclude0, NonBothIds)
                   exclude2 == ClassificationFilter(exclude1, req.classification, lookup)
                   results == [ total |-> Len(CourseHits(exclude2)),
                                results |-> CourseHits(exclude2) ]
                   returned == Enrich(results, enrich)
               IN /\ call' = base @@
                        [ raised |-> "none", searched |-> TRUE,
                          stale_ids |-> HoldsOtherIds(exclude0, exclude2),
                          engine |-> [ doc_type |-> "course_info",
                                       field_dictionary |-> ufd2,
                                       filter_dictionary |-> EmptyDict,
                                       exclude_dictionary |-> exclude2,
                                       sort |-> sort ],
                          engine_results |-> results,
                          returned |-> returned,
                          caller_dict |-> CallerDictAfter(req.field_dictionary, ufd2) ]
                  /\ generator_exclude' =
                        IF generator_shared THEN exclude2 ELSE generator_exclude
    /\ UNCHANGED << config, catalog_visibility, utcnow >>

\* --------------------------------------------------------- environment
\* The request is over: its locals are dropped.
EndRequest ==
    /\ call # NoCall
    /\ call' = NoCall
    /\ UNCHANGED << config, generator_exclude, catalog_visibility, utcnow >>

\* Time passes between requests.
Tick ==
    /\ call = NoCall
    /\ utcnow < MaxClock
    /\ utcnow' = utcnow + 1
    /\ UNCHANGED << config, generator_exclude, catalog_visibility, call >>

\* Studio changes a course's catalog visibility between requests.
SetCatalogVisibility(c, v) ==
    /\ call = NoCall
    /\ catalog_visibility[c] # v
    /\ catalog_visibility' = [catalog_visibility EXCEPT ![c] = v]
    /\ UNCHANGED << config, generator_exclude, utcnow, call >>

\* A client calls perform_search.
SearchRequest ==
    /\ call = NoCall
    /\ \E course_id \in {None, Str("c1")}, n \in 0..MaxHits :
         \E denied \in SUBSET (1..n) : perform_search(course_id, n, denied)

\* A client calls course_discovery_search.
DiscoveryRequest ==
    /\ call = NoCall
    /\ \E req \in DiscoveryRequests, search_fields \in SearchFieldAnswers :
         \E lookup \in LookupOutcomes(req.classification), enrich \in EnrichOutcomes :
            course_discovery_search(req, search_fields, lookup, enrich)

Next ==
    \/ SearchRequest
    \/ DiscoveryRequest
    \/ EndRequest
    \/ Tick
    \/ \E c \in Courses, v \in Visibilities : SetCatalogVisibility(c, v)

Spec == Init /\ [][Next]_vars

\* ---------------------------------------------------------- properties
IsSearch == call.fn = "perform_search"

IsDiscovery == call.fn = "course_discovery_search"

\* The call got past the engine lookup and the year filter, so that it
\* reaches the exclusion set, the search and the enrichment step.
ReachesSearch == IsDiscovery /\ engine_configured /\ ~YearRaises(call.req.year)

IdSet(exclude_dictionary) ==
    { exclude_dictionary["_id"][i] : i \in 1..Len(exclude_dictionary["_id"]) }

HitIds(results) == [i \in 1..Len(results) |-> results[i].id]

LookupFailures == {"ImportError", "ValueError", "lookup_error", "query_error"}

\* The caller's dictionary as update() sees it.
CallerFields(field_dictionary) ==
    IF Truthy(field_dictionary) THEN field_dictionary ELSE EmptyDict

\* C1: in the envelope perform_search returns, access_denied_count plus the
\* number of results is the number of hits the engine returned, and
\* access_denied_count is the number of hits the result processor nulled.
C1_DeniedCountAccounting ==
    (IsSearch /\ call.searched) =>
        /\ call.returned.access_denied_count + Len(call.returned.results)
              = Len(call.engine_hits)
        /\ call.returned.access_denied_count = Cardinality(call.denied)

C1_Witness ==
    /\ IsSearch /\ call.searched
    /\ Len(call.engine_hits) = 3
    /\ Cardinality(call.denied) = 2

\* C2: every hit left in the results of perform_search has data that is
\* not None; a hit is removed exactly when the result processor returned
\* None for it.
C2_OnlyDeniedHitsRemoved ==
    (IsSearch /\ call.searched) =>
        LET res == call.returned.results
        IN /\ \A i \in 1..Len(res) : res[i].data # None
           /\ \A j \in 1..Len(call.engine_hits) :
                 (j \in call.denied) <=>
                    ~(\E i \in 1..Len(res) : res[i].id = call.engine_hits[j].id)

C2_Witness ==
    /\ IsSearch /\ call.searched
    /\ call.denied = {2}
    /\ HitIds(call.returned.results) = <<1, 3>>

\* C3: with no search engine configured, perform_search and
\* course_discovery_search raise NoSearchEngineError and make no search
\* call, whatever their arguments.
C3_NoEngineRaisesWithoutSearch ==
    ((IsSearch \/ IsDiscovery) /\ ~engine_configured) =>
        /\ call.raised = "NoSearchEngineError"
        /\ ~call.searched

C3_Witness ==
    /\ IsDiscovery /\ ~engine_configured
    /\ call.req.year = <<"9", "9", "9", "9">>
    /\ call.raised = "NoSearchEngineError"

\* C4: the "_id" exclusion list of every course_discovery_search call that
\* reaches the engine holds the id of every course whose catalog
\* visibility is not "both", with or without a classification and whether
\* or not the classification lookup succeeds.
C4_ExclusionHoldsEveryNonBothCourse ==
    (IsDiscovery /\ call.searched) =>
        \A c \in Courses :
            catalog_visibility[c] # "both" =>
                IdStr(c) \in IdSet(call.engine.exclude_dictionary)

C4_Witness ==
    /\ IsDiscovery /\ call.searched
    /\ call.lookup = "ok"
    /\ catalog_visibility[1] # "both"

\* C5: when a classification is supplied and its lookup raises (package
\* absent, int() fails, the helper raises, the follow-up query raises),
\* course_discovery_search still searches and returns the engine's result
\* set, and the exclusion set is the one of a call without classification.
C5_LookupFailureLeavesExclusionAlone ==
    (ReachesSearch /\ call.lookup \in LookupFailures) =>
        /\ call.searched
        /\ call.raised = "none"
        /\ call.engine.exclude_dictionary
              = DictSet(GeneratorExcludeBase, "_id", NonBothIds)
        /\ call.returned.total = call.engine_results.total
        /\ HitIds(call.returned.results) = HitIds(call.engine_results.results)

C5_Witness ==
    /\ IsDiscovery /\ call.searched
    /\ call.lookup = "query_error"
    /\ NonBothIds # <<>>
    /\ call.raised = "none"

\* C6: a course_discovery_search call that reaches the enrichment step
\* raises nothing; when set_data_courses is absent or raises, the engine's
\* envelope is returned with its results list unchanged; when it succeeds
\* the results list is its output.
C6_EnrichmentIsBestEffort ==
    ReachesSearch =>
        /\ call.searched
        /\ call.raised = "none"
        /\ call.enrich \in {"ImportError", "error"} =>
              call.returned = call.engine_results
        /\ call.enrich = "ok" =>
              /\ call.returned.results = SetDataCourses(call.engine_results.results)
              /\ call.returned.total = call.engine_results.total

C6_Witness ==
    /\ IsDiscovery /\ call.searched
    /\ call.enrich = "error"
    /\ Len(call.engine_results.results) > 0
    /\ call.returned = call.engine_results

\* C7 (as claimed): with an engine configured, for every year that is a
\* numeric string Y the engine gets start = [Jan 1 Y, Jan 1 Y+1), whatever
\* the caller's field_dictionary; for any other year the start entry is
\* the caller's, or absent.
C7_YearRangeForEveryNumericYear ==
    (IsDiscovery /\ engine_configured) =>
        /\ call.searched
        /\ LET fd == call.engine.field_dictionary
               caller == CallerFields(call.req.field_dictionary)
               year == call.req.year
           IN IF YearGiven(year)
              THEN /\ "start" \in DOMAIN fd
                   /\ fd["start"] = DateRange(Datetime(IntValue(year), 1, 1),
                                              Datetime(IntValue(year) + 1, 1, 1))
              ELSE /\ ("start" \in DOMAIN fd) <=> ("start" \in DOMAIN caller)
                   /\ "start" \in DOMAIN fd => fd["start"] = caller["start"]

\* C7 (what the code does): the statement above holds of the calls whose
\* year is empty, not numeric, or a decimal year Y with 1 <= Y <= 9998;
\* every other numeric year ends the call with ValueError before any search.
C7_YearRangeWithinDatetimeRange ==
    (IsDiscovery /\ engine_configured) =>
        IF YearRaises(call.req.year)
        THEN /\ call.raised = "ValueError"
             /\ ~call.searched
             /\ \/ ~IntParses(call.req.year)
                \/ IntValue(call.req.year) < 1
                \/ IntValue(call.req.year) > 9998
        ELSE /\ call.searched
             /\ LET fd == call.engine.field_dictionary
                    caller == CallerFields(call.req.field_dictionary)
                    year == call.req.year
                IN IF YearGiven(year)
                   THEN /\ "start" \in DOMAIN fd
                        /\ fd["start"] = DateRange(Datetime(IntValue(year), 1, 1),
                                                   Datetime(IntValue(year) + 1, 1, 1))
                   ELSE /\ ("start" \in DOMAIN fd) <=> ("start" \in DOMAIN caller)
                        /\ "start" \in DOMAIN fd => fd["start"] = caller["start"]

C7_WitnessYearOutOfRange ==
    /\ IsDiscovery /\ engine_configured
    /\ call.req.year = <<"9", "9", "9", "9">>
    /\ call.raised = "ValueError"

\* C8: with the clock at T, state "active" gives the engine end = [T, open),
\* state "finished" gives end = (open, T], and any other state leaves the
\* end entry as the caller's field_dictionary had it, or absent.
C8_StateFilterOnEnd ==
    (IsDiscovery /\ call.searched) =>
        LET fd == call.engine.field_dictionary
            caller == CallerFields(call.req.field_dictionary)
            T == Instant(utcnow)
        IN /\ call.req.state = "active" =>
                /\ "end" \in DOMAIN fd
                /\ fd["end"].lower = T /\ fd["end"].upper = None
           /\ call.req.state = "finished" =>
                /\ "end" \in DOMAIN fd
                /\ fd["end"].lower = None /\ fd["end"].upper = T
           /\ call.req.state \notin {"active", "finished"} =>
                /\ ("end" \in DOMAIN fd) <=> ("end" \in DOMAIN caller)
                /\ "end" \in DOMAIN fd => fd["end"] = caller["end"]

C8_Witness ==
    /\ IsDiscovery /\ call.searched
    /\ call.req.state = "finished"
    /\ utcnow = 1
    /\ "end" \in DOMAIN CallerFields(call.req.field_dictionary)
    /\ call.engine.field_dictionary["end"] = DateRange(None, Instant(1))

\* C9: the sort handed to the engine is "start:desc" for order_by "newer",
\* "start" for "older" and "" for every other order_by, whatever the other
\* arguments.
C9_SortFollowsOrderBy ==
    (IsDiscovery /\ call.searched) =>
        call.engine.sort =
            CASE call.req.order_by = "newer" -> "start:desc"
              [] call.req.order_by = "older" -> "start"
              [] OTHER -> ""

C9_Witness ==
    /\ IsDiscovery /\ call.searched
    /\ call.req.order_by = "older"
    /\ call.req.year # <<>>
    /\ call.req.classification # <<>>
    /\ call.engine.sort = "start"

\* What a call's field dictionary is, from its own arguments, the
\* generator's answer and the clock alone.
ExpectedFieldDictionary(req, search_fields, now) ==
    LET caller == CallerFields(req.field_dictionary)
        keys == (DOMAIN caller) \cup ({"org"} \cap DOMAIN search_fields)
                  \cup (IF YearGiven(req.year) THEN {"start"} ELSE {})
                  \cup (IF req.state \in {"active", "finished"} THEN {"end"} ELSE {})
    IN [k \in keys |->
          IF k = "start" /\ YearGiven(req.year)
          THEN DateRange(Datetime(IntValue(req.year), 1, 1),
                         Datetime(IntValue(req.year) + 1, 1, 1))
          ELSE IF k = "end" /\ req.state = "active" THEN DateRange(now, None)
          ELSE IF k = "end" /\ req.state = "finished" THEN DateRange(None, now)
          ELSE IF k \in DOMAIN caller THEN caller[k]
          ELSE search_fields[k]]

\* What a call's exclusion dictionary is, from its own arguments, the
\* course store and the lookup's answer alone.
ExpectedExcludeDictionary(req, lookup) ==
    LET extra == IF lookup = "ok"
                 THEN IdsNotIn(CoursesByClassification(IntValue(req.classification)))
                 ELSE <<>>
    IN [k \in (DOMAIN GeneratorExcludeBase) \cup {"_id"} |->
          IF k = "_id" THEN NonBothIds \o extra ELSE GeneratorExcludeBase[k]]

\* What a call's sort expression is, from order_by alone.
ExpectedSort(order_by) ==
    IF order_by = "newer" THEN "start:desc"
    ELSE IF order_by = "older" THEN "start"
    ELSE ""

\* C10: after any sequence of earlier calls, what course_discovery_search
\* hands to the engine is determined by the call's own arguments and the
\* collaborators' answers at the time of the call: nothing of an earlier
\* call's exclusion ids, date constraints or field entries is in it, and
\* the caller's field_dictionary is left as it was.
C10_CallsAreStateless ==
    IsDiscovery =>
        /\ call.caller_dict = call.req.field_dictionary
        /\ call.searched =>
              /\ call.engine.field_dictionary
                    = ExpectedFieldDictionary(call.req, call.search_fields,
                                              Instant(utcnow))
              /\ call.engine.exclude_dictionary
                    = ExpectedExcludeDictionary(call.req, call.lookup)
              /\ call.engine.sort = ExpectedSort(call.req.order_by)
              /\ call.engine.filter_dictionary = EmptyDict

C10_Witness ==
    /\ IsDiscovery /\ call.searched
    /\ generator_shared
    /\ call.stale_ids
    /\ call.req.classification = <<>>
    /\ Truthy(call.req.field_dictionary)
    /\ call.caller_dict = call.req.field_dictionary

====
